---- MODULE Spec2Model ----
(***************************************************************************)
(* Model of scripts/scrape.py: the crawler of sanderveen-artshop.nl.       *)
(*                                                                         *)
(* Strings are sequences of one-character strings, so that the string      *)
(* operations of the script (rstrip, split, title, the regular             *)
(* expressions of slugify) are computed character by character.  An HTML   *)
(* document is the sequence of the tags the script's patterns look at;     *)
(* the empty sequence is the empty body.                                   *)
(*                                                                         *)
(* Not modelled: price, description, dimensions and medium of              *)
(* extract_product_data, and failures of the directory creations and of    *)
(* the manifest write in main.                                             *)
(***************************************************************************)
EXTENDS Integers, Sequences, FiniteSets, TLC

VARIABLES
    pc,            \* position of main
    catIdx,        \* index of the category being processed (CATEGORIES order)
    detail_links,  \* parser.links of the current category
    linkIdx,       \* index of the link being processed
    paintings,     \* the result collection
    files,         \* the image directory: destination path -> content
    manifest,      \* manifest.json: what it holds, or NoManifest
    anchorsLeft,   \* anchors the listing pages of this run may still hold (MaxAnchors)
    listingFailed, \* history: categories whose listing fetch returned None
    fetched,       \* history: <<category, link>> of each detail fetch that returned a body
    detailFailed,  \* history: <<category, link>> of each detail fetch that returned None
    visited,       \* history: categories whose listing fetch was issued
    pending,       \* history: links found on listing pages and not yet fetched
    fetchSt,       \* the running or last call of fetch
    wire,          \* history: the last network events, requests and sleeps, oldest first
    dl,            \* the last calls of download_image (harness)
    ex             \* input and output of extract_product_data (harness)

vars == <<pc, catIdx, detail_links, linkIdx, paintings, files, manifest, anchorsLeft,
          listingFailed, fetched, detailFailed, visited, pending, fetchSt, wire, dl, ex>>

----------------------------------------------------------------------------
(* Bounds of the model *)

\* anchors served by the site over all listing pages of one run
MaxAnchors == 2
\* largest retries argument of fetch in the fetch harness
MaxRetries == 4
\* longest final path segment S in the title harness
MaxSegLen == 4
\* most image-attribute occurrences of a page in the image harness
MaxOcc == 4

----------------------------------------------------------------------------
(* Characters and strings *)

LC == <<"a","b","c","d","e","f","g","h","i","j","k","l","m",
        "n","o","p","q","r","s","t","u","v","w","x","y","z">>
UC == <<"A","B","C","D","E","F","G","H","I","J","K","L","M",
        "N","O","P","Q","R","S","T","U","V","W","X","Y","Z">>
Digits == <<"0","1","2","3","4","5","6","7","8","9">>

Range(s) == {s[i] : i \in DOMAIN s}
LowerChars == Range(LC)
UpperChars == Range(UC)
DigitChars == Range(Digits)
IsLower(c) == c \in LowerChars
IsUpper(c) == c \in UpperChars
IsCased(c) == IsLower(c) \/ IsUpper(c)
IsDigit(c) == c \in DigitChars
\* \s and \w of the re module, on the characters of the model
SpaceChars == {" "}
WordChars == LowerChars \cup UpperChars \cup DigitChars \cup {"_"}
\* the characters slugify keeps: [\w\s-]
SlugKeep == WordChars \cup SpaceChars \cup {"-"}

IndexIn(c, s) == CHOOSE i \in DOMAIN s : s[i] = c
Lower(c) == IF IsUpper(c) THEN LC[IndexIn(c, UC)] ELSE c
Upper(c) == IF IsLower(c) THEN UC[IndexIn(c, LC)] ELSE c
DigitVal(c) == IndexIn(c, Digits) - 1

\* str.lower
LowerStr(s) == [i \in DOMAIN s |-> Lower(s[i])]

\* s[i:] (1-based, inclusive)
From(s, i) == IF i > Len(s) THEN <<>> ELSE SubSeq(s, i, Len(s))

\* str.startswith, str.endswith
StartsWith(s, p) == Len(p) <= Len(s) /\ SubSeq(s, 1, Len(p)) = p
EndsWith(s, p) == Len(p) <= Len(s) /\ SubSeq(s, Len(s) - Len(p) + 1, Len(s)) = p

\* positions at which p occurs in s
Occurrences(s, p) == {i \in 1..(Len(s) - Len(p) + 1) : SubSeq(s, i, i + Len(p) - 1) = p}
\* p in s
Contains(s, p) == Occurrences(s, p) # {}
Min(S) == CHOOSE x \in S : \A y \in S : x <= y
Max(S) == CHOOSE x \in S : \A y \in S : x >= y

\* str.rstrip(chars), str.lstrip(chars), str.strip(chars)
RECURSIVE RStrip(_, _)
RStrip(s, chars) ==
    IF s # <<>> /\ s[Len(s)] \in chars THEN RStrip(SubSeq(s, 1, Len(s) - 1), chars) ELSE s
RECURSIVE LStrip(_, _)
LStrip(s, chars) ==
    IF s # <<>> /\ s[1] \in chars THEN LStrip(Tail(s), chars) ELSE s
Strip(s, chars) == LStrip(RStrip(s, chars), chars)

\* s.split(sep)[-1]
LastSplit(s, sep) ==
    IF Contains(s, sep) THEN From(s, Max(Occurrences(s, sep)) + Len(sep)) ELSE s

\* s.split(sep, 1), for s that holds sep
SplitOnce(s, sep) ==
    LET i == Min(Occurrences(s, sep))
    IN <<SubSeq(s, 1, i - 1), From(s, i + Len(sep))>>

\* s.replace(a, b) for single characters
ReplaceChar(s, a, b) == [i \in DOMAIN s |-> IF s[i] = a THEN b ELSE s[i]]

\* str.title: a cased character is upper-cased after an uncased one (or at the
\* start) and lower-cased after a cased one
Title(s) ==
    [i \in DOMAIN s |->
        IF i > 1 /\ IsCased(s[i - 1]) THEN Lower(s[i]) ELSE Upper(s[i])]

\* re.sub(r'[class]+', rep, s) for rep a string of length <= 1: every maximal
\* run of characters of the class becomes one rep
RECURSIVE SubRuns(_, _, _)
SubRuns(s, class, rep) ==
    IF s = <<>> THEN <<>>
    ELSE IF s[1] \in class
         THEN (IF Len(s) > 1 /\ s[2] \in class THEN <<>> ELSE rep)
              \o SubRuns(Tail(s), class, rep)
         ELSE <<s[1]>> \o SubRuns(Tail(s), class, rep)

\* int() of a run of digits
RECURSIVE ToInt(_)
ToInt(s) ==
    IF s = <<>> THEN 0 ELSE 10 * ToInt(SubSeq(s, 1, Len(s) - 1)) + DigitVal(s[Len(s)])

----------------------------------------------------------------------------
(* Program constants *)

BASE_URL == <<"h","t","t","p","s",":","/","/","s","a","n","d","e","r","v","e","e","n","-","a","r","t","s","h","o","p",".","n","l">>
CATEGORIES ==
    << [name |-> "abstract",
        path |-> <<"/","w","e","b","s","h","o","p","/","s","c","h","i","l","d","e","r","i","j","e","n","p","a","i","n","t","i","n","g","s","/","a","b","s","t","r","a","c","t","/">>],
       [name |-> "magisch-realisme",
        path |-> <<"/","w","e","b","s","h","o","p","/","s","c","h","i","l","d","e","r","i","j","e","n","p","a","i","n","t","i","n","g","s","/","m","a","g","i","s","c","h","-","r","e","a","l","i","s","m","e","-","-","r","e","v","e","r","s","o","-","c","o","n","t","e","x","t","/">>] >>
CategoryNames == {CATEGORIES[i].name : i \in DOMAIN CATEGORIES}
\* default of fetch's retries parameter
DefaultRetries == 3

DetailMarker == <<"/","d","e","t","a","i","l","/">>
HtmlExt == <<".","h","t","m","l">>
UploadPath == <<"/","d","a","t","a","/","u","p","l","o","a","d","/","S","h","o","p","/","i","m","a","g","e","s","/">>
Http == <<"h","t","t","p">>
DefaultImgExt == <<".","j","p","g">>
\* OUTPUT_DIR and the prefix of local_image, as path components
OUTPUT_DIR == <<"assets", "images", "paintings">>
LocalPrefix == <<"images", "paintings">>

----------------------------------------------------------------------------
(* HTML documents: the tags the patterns of the script look at *)

Anchor(href) == [tag |-> "a", attr |-> "href", val |-> href]
Img(src) == [tag |-> "img", attr |-> "src", val |-> src]
OgImage(content) == [tag |-> "meta", attr |-> "og:image", val |-> content]
TextNode == [tag |-> "text", attr |-> "", val |-> <<>>]

\* first-seen order, later duplicates dropped (dict.fromkeys, `not in` + append)
RECURSIVE Dedupe(_)
Dedupe(s) ==
    IF s = <<>> THEN <<>>
    ELSE LET init == Dedupe(SubSeq(s, 1, Len(s) - 1))
             x == s[Len(s)]
         IN IF x \in Range(init) THEN init ELSE Append(init, x)

Vals(toks) == [i \in DOMAIN toks |-> toks[i].val]

----------------------------------------------------------------------------
(* LinkExtractor *)

\* the test of handle_starttag on an href
QualifiesAsDetail(href) == Contains(href, DetailMarker) /\ EndsWith(href, HtmlExt)

\* parser.links after parser.feed(html)
LinkExtractor(html) ==
    LET hrefs == SelectSeq(html, LAMBDA tok : tok.tag = "a" /\ tok.attr = "href")
        good == SelectSeq(Vals(hrefs), QualifiesAsDetail)
    IN Dedupe(good)

----------------------------------------------------------------------------
(* extract_product_data *)

\* slug = url.rstrip(".html").split("/")[-1]
HtmlExtChars == Range(HtmlExt)
UrlSlug(url) == LastSplit(RStrip(url, HtmlExtChars), <<"/">>)

\* x.replace("-", " ").strip().title()
TitleOf(x) == Title(Strip(ReplaceChar(x, "-", " "), SpaceChars))

DashDash == <<"-", "-">>
TitleNl(slug) ==
    IF Contains(slug, DashDash) THEN TitleOf(SplitOnce(slug, DashDash)[1]) ELSE TitleOf(slug)
TitleEn(slug) ==
    IF Contains(slug, DashDash) THEN TitleOf(SplitOnce(slug, DashDash)[2]) ELSE TitleNl(slug)

\* the longest run of digits of s that starts at position j
RECURSIVE DigitRun(_, _)
DigitRun(s, j) ==
    IF j <= Len(s) /\ IsDigit(s[j]) THEN <<s[j]>> \o DigitRun(s, j + 1) ELSE <<>>

\* re.search(r"/detail/(\d+)/", url): the positions where the pattern matches
IdMatches(url) ==
    {i \in Occurrences(url, DetailMarker) :
        LET j == i + Len(DetailMarker)
            run == DigitRun(url, j)
        IN run # <<>> /\ j + Len(run) <= Len(url) /\ url[j + Len(run)] = "/"}

ProductId(url) ==
    IF IdMatches(url) = {} THEN 0
    ELSE ToInt(DigitRun(url, Min(IdMatches(url)) + Len(DetailMarker)))

\* the (?:src|href)=... pattern matches an attribute value that holds the upload
\* path followed by at least one more character
IsUploadAttr(tok) ==
    /\ tok.attr \in {"src", "href"}
    /\ Contains(tok.val, UploadPath)
    /\ Min(Occurrences(tok.val, UploadPath)) + Len(UploadPath) <= Len(tok.val)

\* re.findall of the upload pattern: the values in document order
ImageMatches(html) == Vals(SelectSeq(html, IsUploadAttr))

\* re.search of the og:image pattern: the first such tag with a non-empty content
OgMatches(html) == SelectSeq(html, LAMBDA tok : tok.tag = "meta" /\ tok.attr = "og:image" /\ tok.val # <<>>)

\* the og:image appended instead of inserted at the front
ImagesOgLast(html) ==
    LET found == Dedupe(ImageMatches(html))
        og == OgMatches(html)
    IN IF og # <<>> /\ og[1].val \notin Range(found) THEN Append(found, og[1].val) ELSE found

\* data["images"]: deduplicated matches, og:image inserted at the front when absent
Images(html) ==
    LET found == Dedupe(ImageMatches(html))
        og == OgMatches(html)
    IN IF og # <<>> /\ og[1].val \notin Range(found) THEN <<og[1].val>> \o found ELSE found

extract_product_data(html, url) ==
    [title_nl |-> TitleNl(UrlSlug(url)),
     title_en |-> TitleEn(UrlSlug(url)),
     id |-> ProductId(url),
     images |-> Images(html)]

----------------------------------------------------------------------------
(* slugify *)

slugify(text) ==
    LET t1 == Strip(LowerStr(text), SpaceChars)
        t2 == SelectSeq(t1, LAMBDA c : c \in SlugKeep)
        t3 == SubRuns(t2, SpaceChars \cup {"_"}, <<"-">>)
        t4 == SubRuns(t3, {"-"}, <<"-">>)
    IN Strip(t4, {"-"})

----------------------------------------------------------------------------
(* Image destination (main, lines 268-277) *)

\* the part of s before the first occurrence of the character c
Before(s, c) == IF Contains(s, <<c>>) THEN SubSeq(s, 1, Min(Occurrences(s, <<c>>)) - 1) ELSE s

\* urllib.parse.urlparse(u).path, for http(s) URLs and for paths
UrlPath(u) ==
    LET s == Before(Before(u, "#"), "?")
        sep == <<":", "/", "/">>
    IN IF StartsWith(s, Http) /\ Contains(s, sep)
       THEN LET rest == From(s, Min(Occurrences(s, sep)) + Len(sep))
            IN IF Contains(rest, <<"/">>) THEN From(rest, Min(Occurrences(rest, <<"/">>))) ELSE <<>>
       ELSE s

\* os.path.splitext(p)[1]: from the last dot of the last component, unless that
\* dot is among the component's leading dots
SplitExt(p) ==
    LET base == LastSplit(p, <<"/">>)
        dots == Occurrences(base, <<".">>)
        body == LStrip(base, {"."})
        lead == Len(base) - Len(body)
    IN IF dots # {} /\ Max(dots) > lead + 1 THEN From(base, Max(dots)) ELSE <<>>

AbsoluteUrl(u) == IF StartsWith(u, Http) THEN u ELSE BASE_URL \o u

ImgExt(img_url) ==
    LET ext == SplitExt(UrlPath(img_url))
    IN IF ext # <<>> THEN ext ELSE DefaultImgExt

\* img_path = cat_dir / img_filename
ImgPath(category, img_filename) == OUTPUT_DIR \o <<category, img_filename>>
\* f"images/paintings/{category}/{img_filename}"
LocalImage(category, img_filename) == LocalPrefix \o <<category, img_filename>>
\* the file a local_image value names (OUTPUT_DIR is assets/images/paintings)
NamedFile(local_image) == <<"assets">> \o local_image

----------------------------------------------------------------------------
(* download_image *)

Absent == "absent"
\* what the file system holds at path p
FileAt(fs, p) == IF p \in DOMAIN fs THEN fs[p] ELSE Absent
WriteFile(fs, p, content) == [q \in DOMAIN fs \cup {p} |-> IF q = p THEN content ELSE fs[q]]
Body(url) == <<"bytes", url>>
Partial(url) == <<"partial", url>>

\* where the try block can raise: urlopen, mkdir, resp.read(), the open and the
\* write of write_bytes; "none" is a download that succeeds
Faults == {"none", "request", "mkdir", "read", "open", "write"}

\* download_image without the test of dest_path.exists()
download_image_unchecked(url, dest_path, fs, fault) ==
    CASE fault = "none" ->
            [ret |-> TRUE, files |-> WriteFile(fs, dest_path, Body(url)), net |-> 1]
      [] fault = "write" ->
            [ret |-> FALSE, files |-> WriteFile(fs, dest_path, Partial(url)), net |-> 1]
      [] OTHER ->
            [ret |-> FALSE, files |-> fs, net |-> 1]

\* the result of download_image(url, dest_path) on file system fs when the
\* environment raises at `fault`: the value returned, the file system
\* afterwards and the number of network requests issued
download_image(url, dest_path, fs, fault) ==
    IF dest_path \in DOMAIN fs
    THEN [ret |-> TRUE, files |-> fs, net |-> 0]
    ELSE CASE fault = "none" ->
                [ret |-> TRUE, files |-> WriteFile(fs, dest_path, Body(url)), net |-> 1]
           [] fault = "write" ->
                \* write_bytes has opened (created) the file when the write raises
                [ret |-> FALSE, files |-> WriteFile(fs, dest_path, Partial(url)), net |-> 1]
           [] OTHER ->
                [ret |-> FALSE, files |-> fs, net |-> 1]

----------------------------------------------------------------------------
(* The site and the environment of a run *)

L1 == <<"/","d","e","t","a","i","l","/","7","/","z","e","e",".","h","t","m","l">>
L2 == <<"/","d","e","t","a","i","l","/","1","2","/","d","e","-","k","l","o","o","f","-","-","t","h","e","-","g","a","p",".","h","t","m","l">>
L3 == <<"/","d","e","t","a","i","l","/","7","/","-","-","g","a","p",".","h","t","m","l">>
L4 == <<"/","a","b","o","u","t","/","z","e","e",".","h","t","m","l">>
Hrefs == {L1, L2, L3, L4}

ImgA == <<"/","d","a","t","a","/","u","p","l","o","a","d","/","S","h","o","p","/","i","m","a","g","e","s","/","a",".","j","p","g">>
ImgP == <<"h","t","t","p","s",":","/","/","s","a","n","d","e","r","v","e","e","n","-","a","r","t","s","h","o","p",".","n","l","/","d","a","t","a","/","u","p","l","o","a","d","/","S","h","o","p","/","i","m","a","g","e","s","/","p",".","p","n","g">>

SeqsUpTo(S, n) == UNION {[1..k -> S] : k \in 0..n}

\* a listing page: the empty body, or a page with up to n anchors
ListingPages(n) == {<<>>} \cup {<<TextNode>> \o [i \in DOMAIN s |-> Anchor(s[i])] : s \in SeqsUpTo(Hrefs, n)}
NumAnchors(html) == Len(SelectSeq(html, LAMBDA tok : tok.tag = "a"))

\* detail pages the site may serve: an empty body, a page without images, a page
\* with an og:image and an embedded image
DetailPages == {<<>>, <<TextNode>>, <<OgImage(ImgP), Img(ImgA)>>}

CatUrl(i) == BASE_URL \o CATEGORIES[i].path
IsCatUrl(url) == \E i \in DOMAIN CATEGORIES : url = CatUrl(i)
\* what a successful GET of url may return when the listing pages may still
\* hold n anchors
Responses(n, url) == IF IsCatUrl(url) THEN ListingPages(n) ELSE DetailPages

\* why an attempt fails
Causes == {"timeout"}

NoManifest == [exists |-> FALSE, records |-> <<>>, writer |-> "none"]

\* the record of an earlier run for L1 in the first category
PriorRecord ==
    [title_nl |-> TitleNl(UrlSlug(L1)), title_en |-> TitleEn(UrlSlug(L1)), id |-> ProductId(L1),
     images |-> <<ImgA>>, category |-> CATEGORIES[1].name, url |-> L1,
     slug |-> slugify(TitleNl(UrlSlug(L1))),
     local_image |-> LocalImage(CATEGORIES[1].name, slugify(TitleNl(UrlSlug(L1))) \o ImgExt(AbsoluteUrl(ImgA)))]
PriorManifest == [exists |-> TRUE, records |-> <<PriorRecord>>, writer |-> "earlier"]
PriorFiles == [p \in {NamedFile(PriorRecord.local_image)} |-> <<"bytes", "earlier">>]
NoFiles == [p \in {} |-> Absent]

----------------------------------------------------------------------------
(* fetch *)

None == [ok |-> FALSE, body |-> <<>>]
Text(body) == [ok |-> TRUE, body |-> body]
\* `not html`: None and the empty string are both falsy
Falsy(ret) == ~ret.ok \/ ret.body = <<>>

FetchIdle ==
    [status |-> "idle", url |-> <<>>, retries |-> 0, attempt |-> 0, tries |-> 0,
     log |-> <<>>, sleeps |-> 0, ret |-> None]
\* fetch(url, retries) entered: attempt is the loop variable, tries counts the
\* requests issued, log holds the "Attempt n failed" lines, sleeps the time.sleep(2) calls
FetchCall(url, retries) ==
    [status |-> "running", url |-> url, retries |-> retries, attempt |-> 0, tries |-> 0,
     log |-> <<>>, sleeps |-> 0, ret |-> None]

\* the loop with one iteration too few: range(retries - 1)
InLoopShort(st) == st.status = "running" /\ st.attempt < st.retries - 1

\* for attempt in range(retries)
InLoop(st) == st.status = "running" /\ st.attempt < st.retries

\* the request of this attempt succeeds: return the decoded body
AttemptOk(st, body) ==
    [st EXCEPT !.status = "returned", !.tries = @ + 1, !.ret = Text(body)]

\* the request raises: print the attempt's ordinal, sleep unless it was the last
AttemptFailed(st, cause) ==
    [st EXCEPT !.tries = @ + 1,
               !.log = Append(@, [ordinal |-> st.attempt + 1, cause |-> cause]),
               !.sleeps = IF st.attempt < st.retries - 1 THEN @ + 1 ELSE @,
               !.attempt = @ + 1]

\* the network events of a run: a request by what it asks for, or a sleep
Sleep == "sleep"
ImageRequest == "image"
IsRequest(ev) == ev # Sleep
\* the request urlopen issues for url from fetch
RequestOf(url) == IF IsCatUrl(url) THEN "listing" ELSE "detail"
\* the events kept: the last three
LastThree(s) == IF Len(s) <= 3 THEN s ELSE SubSeq(s, Len(s) - 2, Len(s))
Emit(w, evs) == LastThree(w \o evs)
NoEvents == <<>>

FetchSucceed ==
    /\ InLoop(fetchSt)
    /\ \E body \in Responses(anchorsLeft, fetchSt.url) :
          /\ fetchSt' = AttemptOk(fetchSt, body)
          /\ anchorsLeft' = anchorsLeft - NumAnchors(body)
    /\ wire' = Emit(wire, <<RequestOf(fetchSt.url)>>)
    /\ UNCHANGED <<pc, catIdx, detail_links, linkIdx, paintings, files, manifest,
                   listingFailed, fetched, detailFailed, visited, pending, dl, ex>>

FetchFail ==
    /\ InLoop(fetchSt)
    /\ \E cause \in Causes : fetchSt' = AttemptFailed(fetchSt, cause)
    \* time.sleep(2) unless this was the last attempt
    /\ wire' = Emit(wire, <<RequestOf(fetchSt.url)>> \o
                          (IF fetchSt.attempt < fetchSt.retries - 1 THEN <<Sleep>> ELSE <<>>))
    /\ UNCHANGED <<pc, catIdx, detail_links, linkIdx, paintings, files, manifest, anchorsLeft,
                   listingFailed, fetched, detailFailed, visited, pending, dl, ex>>

\* the loop is exhausted: return None
FetchGiveUp ==
    /\ fetchSt.status = "running"
    /\ ~InLoop(fetchSt)
    /\ fetchSt' = [fetchSt EXCEPT !.status = "returned", !.ret = None]
    /\ UNCHANGED <<pc, catIdx, detail_links, linkIdx, paintings, files, manifest, anchorsLeft,
                   listingFailed, fetched, detailFailed, visited, pending, dl, ex, wire>>

Returned == fetchSt.status = "returned"

----------------------------------------------------------------------------
(* main *)

\* list.sort(key=id, reverse=True): descending, equal keys keep their order
RECURSIVE InsertDesc(_, _)
InsertDesc(sorted, x) ==
    IF sorted = <<>> THEN <<x>>
    ELSE IF sorted[1].id >= x.id THEN <<sorted[1]>> \o InsertDesc(Tail(sorted), x)
         ELSE <<x>> \o sorted
RECURSIVE SortDesc(_)
SortDesc(s) ==
    IF s = <<>> THEN <<>> ELSE InsertDesc(SortDesc(SubSeq(s, 1, Len(s) - 1)), s[Len(s)])

Category == CATEGORIES[catIdx].name
Link == detail_links[linkIdx]
FullUrl(link) == IF StartsWith(link, Http) THEN link ELSE BASE_URL \o link

\* img_url: the primary image main downloads, element zero of images made absolute
PrimaryUrl(data) == AbsoluteUrl(data.images[1])

\* img_filename = data["slug"] + ext, for a record with images
ImgFilename(data) == data.slug \o ImgExt(AbsoluteUrl(data.images[1]))

\* lines 260-265 and 277/281: the record of a link
Record(html, link, category) ==
    LET data == extract_product_data(html, link)
        slug == slugify(data.title_nl)
    IN [title_nl |-> data.title_nl, title_en |-> data.title_en, id |-> data.id,
        images |-> data.images, category |-> category, url |-> link, slug |-> slug,
        local_image |->
            IF data.images # <<>>
            THEN LocalImage(category, slug \o ImgExt(AbsoluteUrl(data.images[1])))
            ELSE <<>>]

\* for category, cat_path in CATEGORIES.items(): html = fetch(cat_url)
StartCategory ==
    /\ pc = "category"
    /\ catIdx <= Len(CATEGORIES)
    /\ fetchSt' = FetchCall(CatUrl(catIdx), DefaultRetries)
    /\ visited' = visited \cup {Category}
    /\ pc' = "listing"
    /\ UNCHANGED <<catIdx, detail_links, linkIdx, paintings, files, manifest, anchorsLeft,
                   listingFailed, fetched, detailFailed, pending, dl, ex, wire>>

\* if not html: continue
SkipCategory ==
    /\ pc = "listing"
    /\ Returned
    /\ Falsy(fetchSt.ret)
    /\ listingFailed' = IF fetchSt.ret.ok THEN listingFailed ELSE listingFailed \cup {Category}
    /\ catIdx' = catIdx + 1
    /\ pc' = "category"
    /\ fetchSt' = FetchIdle
    /\ UNCHANGED <<detail_links, linkIdx, paintings, files, manifest, anchorsLeft, fetched,
                   detailFailed, visited, pending, dl, ex, wire>>

\* parser.feed(html); detail_links = parser.links
ParseListing ==
    /\ pc = "listing"
    /\ Returned
    /\ ~Falsy(fetchSt.ret)
    /\ detail_links' = LinkExtractor(fetchSt.ret.body)
    /\ pending' = pending + Len(LinkExtractor(fetchSt.ret.body))
    /\ linkIdx' = 1
    /\ pc' = "link"
    /\ fetchSt' = FetchIdle
    /\ UNCHANGED <<catIdx, paintings, files, manifest, anchorsLeft, listingFailed, fetched,
                   detailFailed, visited, dl, ex, wire>>

\* for link in detail_links: detail_html = fetch(full_url)
StartLink ==
    /\ pc = "link"
    /\ linkIdx <= Len(detail_links)
    /\ fetchSt' = FetchCall(FullUrl(Link), DefaultRetries)
    /\ pending' = pending - 1
    /\ pc' = "detail"
    /\ UNCHANGED <<catIdx, detail_links, linkIdx, paintings, files, manifest, anchorsLeft,
                   listingFailed, fetched, detailFailed, visited, dl, ex, wire>>

\* the links of the category are exhausted
EndCategory ==
    /\ pc = "link"
    /\ linkIdx > Len(detail_links)
    /\ catIdx' = catIdx + 1
    /\ pc' = "category"
    /\ UNCHANGED <<detail_links, linkIdx, paintings, files, manifest, anchorsLeft,
                   listingFailed, fetched, detailFailed, visited, pending, fetchSt, dl, ex, wire>>

\* a failed detail fetch that leaves the loop (break) instead of continuing
SkipItemBreak ==
    /\ pc = "detail"
    /\ Returned
    /\ Falsy(fetchSt.ret)
    /\ fetched' = IF fetchSt.ret.ok THEN Append(fetched, <<Category, Link>>) ELSE fetched
    /\ detailFailed' = IF fetchSt.ret.ok THEN detailFailed ELSE detailFailed \cup {<<Category, Link>>}
    /\ linkIdx' = Len(detail_links) + 1
    /\ pc' = "link"
    /\ fetchSt' = FetchIdle
    /\ UNCHANGED <<catIdx, detail_links, paintings, files, manifest, anchorsLeft,
                   listingFailed, visited, pending, dl, ex, wire>>

\* if not detail_html: continue
SkipItem ==
    /\ pc = "detail"
    /\ Returned
    /\ Falsy(fetchSt.ret)
    /\ fetched' = IF fetchSt.ret.ok THEN Append(fetched, <<Category, Link>>) ELSE fetched
    /\ detailFailed' = IF fetchSt.ret.ok THEN detailFailed ELSE detailFailed \cup {<<Category, Link>>}
    /\ linkIdx' = linkIdx + 1
    /\ pc' = "link"
    /\ fetchSt' = FetchIdle
    /\ UNCHANGED <<catIdx, detail_links, paintings, files, manifest, anchorsLeft,
                   listingFailed, visited, pending, dl, ex, wire>>

\* lines 260-285: extract, slug, download the primary image, append, sleep
ProcessItem ==
    /\ pc = "detail"
    /\ Returned
    /\ ~Falsy(fetchSt.ret)
    /\ \E data \in {Record(fetchSt.ret.body, Link, Category)} :
          /\ paintings' = Append(paintings, data)
          /\ IF data.images # <<>>
             THEN \E img_path \in {ImgPath(Category, ImgFilename(data))}, fault \in Faults :
                    \E r \in {download_image(PrimaryUrl(data), img_path, files, fault)} :
                       /\ files' = r.files
                       \* the request of download_image, if it issued one, then time.sleep(0.5)
                       /\ wire' = Emit(wire, (IF r.net > 0 THEN <<ImageRequest>> ELSE <<>>) \o <<Sleep>>)
             ELSE /\ files' = files
                  /\ wire' = Emit(wire, <<Sleep>>)
    /\ fetched' = Append(fetched, <<Category, Link>>)
    /\ linkIdx' = linkIdx + 1
    /\ pc' = "link"
    /\ fetchSt' = FetchIdle
    /\ UNCHANGED <<catIdx, detail_links, manifest, anchorsLeft, listingFailed, detailFailed,
                   visited, pending, dl, ex>>

\* paintings.sort(...); json.dump(paintings, f)
WriteManifest ==
    /\ pc = "category"
    /\ catIdx > Len(CATEGORIES)
    /\ paintings' = SortDesc(paintings)
    /\ manifest' = [exists |-> TRUE, records |-> SortDesc(paintings), writer |-> "this"]
    /\ pc' = "done"
    /\ UNCHANGED <<catIdx, detail_links, linkIdx, files, anchorsLeft, listingFailed, fetched,
                   detailFailed, visited, pending, fetchSt, dl, ex, wire>>

NoCalls == <<>>
NoExtract == [html |-> <<>>, url |-> <<>>, done |-> FALSE, data |-> extract_product_data(<<>>, <<>>)]

\* the variables of main before the first category
MainInit ==
    /\ catIdx = 1
    /\ detail_links = <<>>
    /\ linkIdx = 1
    /\ paintings = <<>>
    /\ listingFailed = {}
    /\ fetched = <<>>
    /\ detailFailed = {}
    /\ visited = {}
    /\ pending = 0
    /\ anchorsLeft = MaxAnchors
    /\ wire = NoEvents

\* a first run, or a run after an earlier one that left its manifest and an image
Init ==
    /\ pc = "category"
    /\ MainInit
    /\ \/ files = NoFiles /\ manifest = NoManifest
       \/ files = PriorFiles /\ manifest = PriorManifest
    /\ fetchSt = FetchIdle
    /\ dl = NoCalls
    /\ ex = NoExtract

Next ==
    \/ StartCategory
    \/ SkipCategory
    \/ ParseListing
    \/ StartLink
    \/ EndCategory
    \/ SkipItem
    \/ ProcessItem
    \/ WriteManifest
    \/ FetchSucceed
    \/ FetchFail
    \/ FetchGiveUp

Spec == Init /\ [][Next]_vars

----------------------------------------------------------------------------
(* fetch on its own: fetch(url, retries) for a listing and a detail URL *)

InitFetch ==
    /\ pc = "fetch"
    /\ MainInit
    /\ files = NoFiles
    /\ manifest = NoManifest
    /\ \E url \in {CatUrl(1), FullUrl(L1)}, n \in 0..MaxRetries : fetchSt = FetchCall(url, n)
    /\ dl = NoCalls
    /\ ex = NoExtract

NextFetch ==
    \/ FetchSucceed
    \/ FetchFail
    \/ FetchGiveUp

SpecFetch == InitFetch /\ [][NextFetch]_vars

----------------------------------------------------------------------------
(* download_image on its own: calls in a row on one image directory *)

DlUrls == {AbsoluteUrl(ImgA), ImgP}
DlDests == {ImgPath(CATEGORIES[1].name, ImgFilename(PriorRecord)),
            ImgPath(CATEGORIES[2].name, slugify(TitleNl(UrlSlug(L2))) \o ImgExt(ImgP))}

\* the last two calls
LastTwo(s) == IF Len(s) > 2 THEN Tail(s) ELSE s

DownloadCall ==
    /\ pc = "download"
    /\ \E url \in DlUrls, dest \in DlDests, fault \in Faults :
          \E r \in {download_image(url, dest, files, fault)} :
             /\ files' = r.files
             /\ dl' = LastTwo(Append(dl, [url |-> url, dest |-> dest, ret |-> r.ret, net |-> r.net,
                                          before |-> FileAt(files, dest),
                                          after |-> FileAt(r.files, dest)]))
    /\ UNCHANGED <<pc, catIdx, detail_links, linkIdx, paintings, manifest, anchorsLeft,
                   listingFailed, fetched, detailFailed, visited, pending, fetchSt, ex, wire>>

InitDownload ==
    /\ pc = "download"
    /\ MainInit
    /\ files \in {NoFiles, PriorFiles}
    /\ manifest = NoManifest
    /\ fetchSt = FetchIdle
    /\ dl = NoCalls
    /\ ex = NoExtract

NextDownload == DownloadCall

SpecDownload == InitDownload /\ [][NextDownload]_vars

----------------------------------------------------------------------------
(* extract_product_data on its own *)

ImgB == <<"/","d","a","t","a","/","u","p","l","o","a","d","/","S","h","o","p","/","i","m","a","g","e","s","/","b",".","j","p","g">>
ImgC == <<"/","d","a","t","a","/","u","p","l","o","a","d","/","S","h","o","p","/","i","m","a","g","e","s","/","c",".","j","p","g">>
\* an image that is not under the upload path
ImgN == <<"/","i","m","g","/","l","o","g","o",".","p","n","g">>
\* the tags of a page that carry image URLs
ImgTags == {Img(ImgA), Img(ImgB), Img(ImgC), Img(ImgN)}
\* the og:image tags of a page's head: none, one, or two
OgHeads == {<<>>, <<OgImage(ImgP)>>, <<OgImage(ImgA)>>, <<OgImage(ImgA), OgImage(ImgP)>>}
ImagePages == {head \o body : head \in OgHeads, body \in SeqsUpTo(ImgTags, MaxOcc)}

\* characters of the final path segment of a detail URL
SegChars == {"a", "l", "-", "_", ".", "Z"}
DetailPrefix == DetailMarker \o <<"7", "/">>
DetailUrl(seg) == DetailPrefix \o seg \o HtmlExt

Extract ==
    /\ pc = "extract"
    /\ ~ex.done
    /\ ex' = [ex EXCEPT !.done = TRUE, !.data = extract_product_data(ex.html, ex.url)]
    /\ UNCHANGED <<pc, catIdx, detail_links, linkIdx, paintings, files, manifest, anchorsLeft,
                   listingFailed, fetched, detailFailed, visited, pending, fetchSt, dl, wire>>

\* the pages with the URL fixed, and the URLs with the page fixed
InitExtract ==
    /\ pc = "extract"
    /\ MainInit
    /\ files = NoFiles
    /\ manifest = NoManifest
    /\ fetchSt = FetchIdle
    /\ dl = NoCalls
    /\ \/ \E html \in ImagePages : ex = [NoExtract EXCEPT !.html = html, !.url = L1]
       \/ \E seg \in SeqsUpTo(SegChars, MaxSegLen) :
             ex = [NoExtract EXCEPT !.html = <<TextNode>>, !.url = DetailUrl(seg)]

NextExtract == Extract

SpecExtract == InitExtract /\ [][NextExtract]_vars

----------------------------------------------------------------------------
(* Claims *)

\* C1: every record of the manifest written by the run with a non-empty
\* local_image names an image file that exists on disk; a failed download
\* leaves local_image empty.
LocalImagesExist ==
    pc = "done" =>
        \A i \in DOMAIN manifest.records :
            manifest.records[i].local_image # <<>> =>
                NamedFile(manifest.records[i].local_image) \in DOMAIN files

SameTarget(a, b) == a.url = b.url /\ a.dest = b.dest
\* a call that found a file at the destination returned success, issued no
\* request and left the file as it was
NoOpOnExisting(call) ==
    call.before # Absent => call.ret /\ call.net = 0 /\ call.after = call.before

\* C2 (as stated): two calls in a row with the same URL and destination issue
\* exactly one network request in total and the second is a no-op success;
\* a call on an existing destination is a no-op success.
DownloadTwiceOneRequest ==
    /\ \A i \in DOMAIN dl : NoOpOnExisting(dl[i])
    /\ Len(dl) = 2 /\ SameTarget(dl[1], dl[2]) =>
          /\ dl[1].net + dl[2].net = 1
          /\ dl[2].ret /\ dl[2].net = 0 /\ dl[2].after = dl[2].before

\* C2 (amended): when no file exists at the destination and the first of two
\* calls in a row with the same URL and destination succeeds, the two calls
\* issue exactly one network request in total and the second is a no-op
\* success; a call on an existing destination is a no-op success.
DownloadTwiceAfterSuccess ==
    /\ \A i \in DOMAIN dl : NoOpOnExisting(dl[i])
    /\ Len(dl) = 2 /\ SameTarget(dl[1], dl[2]) /\ dl[1].before = Absent /\ dl[1].ret =>
          /\ dl[1].net + dl[2].net = 1
          /\ dl[2].ret /\ dl[2].net = 0 /\ dl[2].after = dl[2].before

DownloadedThenSkipped ==
    /\ Len(dl) = 2 /\ SameTarget(dl[1], dl[2])
    /\ dl[1].before = Absent /\ dl[1].ret /\ dl[1].net = 1
    /\ dl[2].ret /\ dl[2].net = 0

\* C3: a call of download_image that reports failure leaves no file at the
\* destination.
FailedDownloadLeavesNoFile ==
    \A i \in DOMAIN dl : ~dl[i].ret => dl[i].after = Absent

\* C4: fetch(url, retries=N) returns None only after exactly N failed attempts,
\* returns the body of attempt k <= N after exactly k attempts, and logs every
\* failed attempt with its ordinal.
FetchAttempts ==
    /\ \A i \in DOMAIN fetchSt.log : fetchSt.log[i].ordinal = i
    /\ Returned /\ ~fetchSt.ret.ok =>
          fetchSt.tries = fetchSt.retries /\ Len(fetchSt.log) = fetchSt.retries
    /\ Returned /\ fetchSt.ret.ok =>
          /\ fetchSt.tries <= fetchSt.retries
          /\ Len(fetchSt.log) = fetchSt.tries - 1
          /\ fetchSt.ret.body \in Responses(MaxAnchors, fetchSt.url)

FetchExhausted ==
    /\ Returned /\ ~fetchSt.ret.ok
    /\ fetchSt.retries = DefaultRetries /\ fetchSt.tries = DefaultRetries
    /\ Len(fetchSt.log) = DefaultRetries

Key(rec) == <<rec.category, rec.url>>
PosIn(s, x) == CHOOSE i \in DOMAIN s : s[i] = x
DescendingById(recs) == \A i, j \in DOMAIN recs : i < j => recs[i].id >= recs[j].id

\* C5: the manifest holds exactly one record for each (category, link) whose
\* detail page was fetched successfully, by id descending, with equal ids in
\* discovery order.
ManifestOfFetched ==
    pc = "done" =>
        LET recs == manifest.records
        IN /\ Len(recs) = Len(fetched)
           /\ {Key(recs[i]) : i \in DOMAIN recs} = Range(fetched)
           /\ DescendingById(recs)
           /\ \A i, j \in DOMAIN recs :
                 i < j /\ recs[i].id = recs[j].id =>
                     PosIn(fetched, Key(recs[i])) < PosIn(fetched, Key(recs[j]))

\* some step of the run is possible at each position of main (while a fetch
\* runs, its next attempt can fail or the loop is exhausted; ProcessItem is
\* possible whenever its guard holds: its download always has an outcome)
CanStep ==
    /\ pc = "category" => ENABLED (StartCategory \/ WriteManifest)
    /\ pc = "link" => ENABLED (StartLink \/ EndCategory)
    /\ pc = "listing" => ENABLED (FetchFail \/ FetchGiveUp \/ SkipCategory \/ ParseListing)
    /\ pc = "detail" =>
          \/ ENABLED (FetchFail \/ FetchGiveUp \/ SkipItem)
          \/ Returned /\ ~Falsy(fetchSt.ret)

\* C6: a failed listing fetch skips only that category and a failed detail
\* fetch only that item: every category is still visited, every link found
\* is still fetched, no record comes from a skipped category or item, and the
\* run goes on until the manifest is written.
SkipAndContinue ==
    /\ pc \in {"category", "done"} => pending = 0
    /\ pc = "done" => visited = CategoryNames /\ manifest.writer = "this"
    /\ \A i \in DOMAIN paintings :
          /\ paintings[i].category \notin listingFailed
          /\ Key(paintings[i]) \notin detailFailed
    /\ pc # "done" => CanStep

\* the first listing failed and the second category is processed; its first
\* detail page failed and its second link has been processed
SkippedThenProcessed ==
    /\ catIdx = 2 /\ pc = "link" /\ linkIdx = 3
    /\ CATEGORIES[1].name \in listingFailed
    /\ <<CATEGORIES[2].name, detail_links[1]>> \in detailFailed
    /\ \E i \in DOMAIN paintings : Key(paintings[i]) = <<CATEGORIES[2].name, detail_links[2]>>

\* C7: when the listing pages of both categories are unreachable the run
\* writes no manifest.
NoManifestWhenAllListingsFail ==
    listingFailed = CategoryNames => manifest.writer # "this"

NoDup(s) == \A i, j \in DOMAIN s : i # j => s[i] # s[j]
\* the upload-path image URLs of a page, in document order
UploadVals(html) ==
    Vals(SelectSeq(html, LAMBDA tok : tok.tag = "img" /\ Contains(tok.val, UploadPath)))
FirstIn(occ, x) == Min({i \in DOMAIN occ : occ[i] = x})
\* s lists every URL of occ once, in the order of the first occurrences
FirstOccurrences(s, occ) ==
    /\ Range(s) = Range(occ)
    /\ NoDup(s)
    /\ \A i, j \in DOMAIN s : i < j => FirstIn(occ, s[i]) < FirstIn(occ, s[j])
OgTags(html) == SelectSeq(html, LAMBDA tok : tok.tag = "meta")
ABAC == <<Img(ImgA), Img(ImgB), Img(ImgA), Img(ImgC)>>

\* C8: images are the upload-path URLs in document order with later
\* duplicates removed, and the og:image URL (of the first og:image tag), when
\* it is not among them, is inserted at the front; no URL appears twice.
ImagesDedupedOgFirst ==
    ex.done =>
        LET occ == UploadVals(ex.html)
            og == OgTags(ex.html)
            imgs == ex.data.images
        IN /\ NoDup(imgs)
           /\ IF og # <<>> /\ og[1].val \notin Range(occ)
              THEN imgs # <<>> /\ imgs[1] = og[1].val /\ FirstOccurrences(Tail(imgs), occ)
              ELSE FirstOccurrences(imgs, occ)
           /\ ex.html = ABAC => imgs = <<ImgA, ImgB, ImgC>>
           /\ ex.html = <<OgImage(ImgP)>> \o ABAC => imgs = <<ImgP, ImgA, ImgB, ImgC>>

ExtractedPABAC ==
    /\ ex.done
    /\ ex.html = <<OgImage(ImgP)>> \o ABAC
    /\ ex.data.images = <<ImgP, ImgA, ImgB, ImgC>>

\* the final path segment of url without its last Len(HtmlExt) characters
SegmentOf(url) ==
    LET last == LastSplit(url, <<"/">>)
    IN SubSeq(last, 1, Len(last) - Len(HtmlExt))

\* C9: for a URL whose final path segment is S followed by ".html", the
\* titles are derived from exactly S.
TitlesFromSegment ==
    ex.done /\ EndsWith(ex.url, HtmlExt) =>
        /\ ex.data.title_nl = TitleNl(SegmentOf(ex.url))
        /\ ex.data.title_en = TitleEn(SegmentOf(ex.url))

ValidSlug(s) ==
    /\ s # <<>>
    /\ Range(s) \subseteq LowerChars \cup DigitChars \cup {"-"}
    /\ s[1] # "-" /\ s[Len(s)] # "-"
    /\ ~Contains(s, DashDash)

\* C10: every record appended by the crawl has a non-empty slug of lowercase
\* letters, digits and single hyphens, with no leading or trailing hyphen.
SlugsValid ==
    \A i \in DOMAIN paintings : ValidSlug(paintings[i].slug)

\* C11: in a crawl run no two requests to the site are issued back to back: every
\* request, and so every detail-page fetch whether it succeeds or fails, is
\* followed by a sleep before the next request (detail page, listing or image).
DelayBetweenRequests ==
    \A i \in 1..(Len(wire) - 1) : IsRequest(wire[i]) => ~IsRequest(wire[i + 1])

\* C12: whenever the page carries an og:image tag, its URL is element zero of
\* the images list and is the image main downloads as the primary image,
\* also when the same URL occurs among the embedded images at a later position.
OgImageIsPrimary ==
    ex.done /\ OgTags(ex.html) # <<>> =>
        /\ ex.data.images # <<>>
        /\ ex.data.images[1] = OgTags(ex.html)[1].val
        /\ PrimaryUrl(ex.data) = AbsoluteUrl(OgTags(ex.html)[1].val)

====
